---------------------------- MODULE Spec2Model ----------------------------
(***************************************************************************)
(* Model of src/app.py: a Streamlit dashboard over a retail transaction    *)
(* log.  Every script run calls the cached load_data() and then executes   *)
(* exactly one of eight view handlers.                                     *)
(*                                                                         *)
(* Two specifications are given.                                           *)
(*   Spec        a dashboard session: the raw file, the st.cache_data      *)
(*               cache, the data frame of the current script run and the   *)
(*               handler that ran.                                         *)
(*   BasketSpec  the Basket Analysis handler step by step (try apriori,    *)
(*               except MemoryError: fpgrowth, then association_rules) on  *)
(*               basket matrices big enough for min_support to matter.     *)
(*                                                                         *)
(* Numbers are exact: money is in integer units, supports and lifts are    *)
(* compared as integer cross products.  A missing value (NaN / NaT) is     *)
(* NULL.                                                                   *)
(***************************************************************************)
EXTENDS Integers, Sequences, FiniteSets, Bags, TLC

VARIABLES
    file,      \* the rows of OnlineRetail.csv as pd.read_csv (line 16) returns
               \* them, in file order, an empty field as NaN
    cache,     \* st.cache_data entry of load_data(): NULL or the cleaned rows
    reads,     \* how many times the body of load_data (pd.read_csv) has run
    pc,        \* "idle": waiting for a selection; "loaded": df = load_data() done
               \* "done": the handler of `choice` has finished
               \* BasketSpec: "try" | "fallback" | "rules" | "shown" | "failed"
    choice,    \* the sidebar selection of the current script run
    df,        \* the data frame of the current script run (module global df)
    out,       \* what the handler of the current script run displayed
    basket,    \* BasketSpec: the boolean invoice x product matrix
    frequent_itemsets,  \* BasketSpec: result of apriori / fpgrowth, or NULL
    rules,     \* BasketSpec: result of association_rules, or NULL
    calls      \* BasketSpec: history of library calls and how each ended

vars == <<file, cache, reads, pc, choice, df, out,
          basket, frequent_itemsets, rules, calls>>

\* A cell is <<v>>, or <<>> when the value is missing (NaN / NaT / None).
NULL == <<>>
Cell(v) == <<v>>
IsNull(c) == c = NULL
Val(c) == c[1]

(***************************************************************************)
(* Bounds of the model.                                                    *)
(***************************************************************************)
MaxRows == 2        \* rows in the raw file
MaxPatterns == 3    \* distinct rows of the basket matrix (BasketSpec)
BulkCount == 60     \* a basket row may occur once or BulkCount times

(***************************************************************************)
(* Arithmetic helpers.                                                     *)
(***************************************************************************)
RECURSIVE SumSeq(_)
SumSeq(s) == IF s = <<>> THEN 0 ELSE Head(s) + SumSeq(Tail(s))

RECURSIVE SumSet(_, _)
SumSet(f, S) ==
    IF S = {} THEN 0
    ELSE LET x == CHOOSE y \in S : TRUE IN f[x] + SumSet(f, S \ {x})

Range(s) == {s[i] : i \in DOMAIN s}

\* Series.sum(): NaN entries are skipped (skipna=True)
SeriesSum(s) ==
    LET present == SelectSeq(s, LAMBDA c : ~IsNull(c))
    IN  SumSeq([i \in DOMAIN present |-> Val(present[i])])

Column(rows, col) == [i \in DOMAIN rows |-> rows[i][col]]

(***************************************************************************)
(* The raw file.  A row has the fixed columns of OnlineRetail.csv.         *)
(* InvoiceNo is <<"int", n>> when pandas read a number and <<"str", text>> *)
(* when the field is not numeric.  InvoiceDate is the text                 *)
(* "m/d/yyyy h:mm", held as its numeric fields.  Invoice headers fix       *)
(* InvoiceNo, InvoiceDate, CustomerID and Country; catalogue entries fix   *)
(* StockCode, Description and UnitPrice.                                   *)
(***************************************************************************)
InvoiceHeaders ==
    { [InvoiceNo |-> Cell(<<"int", 536>>), InvoiceDate |-> Cell(<<12, 1, 2010, 8, 26>>),
       CustomerID |-> Cell(17850), Country |-> Cell("United Kingdom")],
      [InvoiceNo |-> Cell(<<"int", 537>>), InvoiceDate |-> Cell(<<1, 4, 2011, 10, 0>>),
       CustomerID |-> Cell(12583), Country |-> Cell("France")],
      [InvoiceNo |-> Cell(<<"int", 538>>), InvoiceDate |-> Cell(<<12, 1, 2010, 11, 52>>),
       CustomerID |-> NULL, Country |-> Cell("United Kingdom")],
      [InvoiceNo |-> Cell(<<"str", <<"C", "5", "3", "9">> >>),
       InvoiceDate |-> Cell(<<1, 4, 2011, 10, 0>>),
       CustomerID |-> Cell(17850), Country |-> Cell("United Kingdom")],
      [InvoiceNo |-> Cell(<<"int", 540>>), InvoiceDate |-> Cell(<<1, 4, 2011, 14, 30>>),
       CustomerID |-> Cell(12583), Country |-> NULL],
      [InvoiceNo |-> Cell(<<"str", <<"c", "5", "4", "1">> >>),
       InvoiceDate |-> Cell(<<2, 7, 2011, 9, 15>>),
       CustomerID |-> Cell(13047), Country |-> Cell("France")] }

Catalogue ==
    { [StockCode |-> Cell("22632"),
       Description |-> Cell(<<"r", "e", "d", " ", "C", "U", "P">>),
       UnitPrice |-> Cell(3)],
      [StockCode |-> Cell("84879"),
       Description |-> Cell(<<"B", "I", "R", "D">>),
       UnitPrice |-> Cell(0)] }

Quantities == {-1, 0, 2}

RawRow(h, p, q) ==
    [InvoiceNo |-> h.InvoiceNo, StockCode |-> p.StockCode,
     Description |-> p.Description, Quantity |-> Cell(q),
     InvoiceDate |-> h.InvoiceDate, UnitPrice |-> p.UnitPrice,
     CustomerID |-> h.CustomerID, Country |-> h.Country]

RowDomain == {RawRow(h, p, q) : h \in InvoiceHeaders, p \in Catalogue, q \in Quantities}

Files == UNION {[1..n -> RowDomain] : n \in 0..MaxRows}

(***************************************************************************)
(* load_data (src/app.py lines 14-22).                                     *)
(***************************************************************************)
\* no row dropped
KeepAllRows(rows) == rows

\* df.dropna(subset=["CustomerID"])
dropna_CustomerID(rows) == SelectSeq(rows, LAMBDA r : ~IsNull(r.CustomerID))

\* decimal digits of a natural number, as text
RECURSIVE Digits(_)
Digits(n) ==
    LET d == <<"0", "1", "2", "3", "4", "5", "6", "7", "8", "9">>
    IN  IF n < 10 THEN <<d[n + 1]>> ELSE Digits(n \div 10) \o <<d[(n % 10) + 1]>>

\* Series.astype(str) on one cell: a number as its digits, NaN as "nan",
\* text unchanged
astype_str(c) ==
    IF IsNull(c) THEN <<"n", "a", "n">>
    ELSE IF Val(c)[1] = "int" THEN Digits(Val(c)[2])
    ELSE Val(c)[2]

\* str.startswith(prefix)
startswith(s, prefix) ==
    /\ Len(s) >= Len(prefix)
    /\ SubSeq(s, 1, Len(prefix)) = prefix

\* the mask with a lower-case prefix
NotLowerCasePrefix(r) == ~startswith(astype_str(r.InvoiceNo), <<"c">>)

\* the mask ~df['InvoiceNo'].astype(str).str.startswith('C') for one row
NotCancelled(r) == ~startswith(astype_str(r.InvoiceNo), <<"C">>)

\* df[~df['InvoiceNo'].astype(str).str.startswith('C')]
drop_cancelled(rows) == SelectSeq(rows, NotCancelled)

\* the mask df['Quantity'] >= 0
NonNegativeQuantity(r) == ~IsNull(r.Quantity) /\ Val(r.Quantity) >= 0

\* the mask df['Quantity'] > 0 for one row: a comparison with NaN is False
PositiveQuantity(r) == ~IsNull(r.Quantity) /\ Val(r.Quantity) > 0

\* df[df['Quantity'] > 0]
keep_positive(rows) == SelectSeq(rows, PositiveQuantity)

\* pd.to_datetime on the text "m/d/yyyy h:mm" of one cell
to_datetime(c) ==
    IF IsNull(c) THEN NULL
    ELSE LET t == Val(c)
         IN  Cell([year |-> t[3], month |-> t[1], day |-> t[2],
                   hour |-> t[4], minute |-> t[5]])

\* df['InvoiceDate'] = pd.to_datetime(df['InvoiceDate'])
parse_dates(rows) ==
    [i \in DOMAIN rows |-> [rows[i] EXCEPT !.InvoiceDate = to_datetime(@)]]

\* df['Quantity'] + df['UnitPrice']
QuantityPlusPrice(r) ==
    IF IsNull(r.Quantity) \/ IsNull(r.UnitPrice) THEN NULL
    ELSE Cell(Val(r.Quantity) + Val(r.UnitPrice))

\* df['Quantity'] * df['UnitPrice'] for one row: NaN if either is NaN
RevenueOf(r) ==
    IF IsNull(r.Quantity) \/ IsNull(r.UnitPrice) THEN NULL
    ELSE Cell(Val(r.Quantity) * Val(r.UnitPrice))

Columns == {"InvoiceNo", "StockCode", "Description", "Quantity", "InvoiceDate",
            "UnitPrice", "CustomerID", "Country"}

\* df['Revenue'] = df['Quantity'] * df['UnitPrice']
add_revenue(rows) ==
    [i \in DOMAIN rows |->
        [c \in Columns \cup {"Revenue"} |->
            IF c = "Revenue" THEN RevenueOf(rows[i]) ELSE rows[i][c]]]

\* the body of load_data
load_data_body(f) ==
    add_revenue(parse_dates(keep_positive(drop_cancelled(
        dropna_CustomerID(f)))))

(***************************************************************************)
(* st.cache_data (line 14): the first call runs the body and stores the    *)
(* result; every call returns its own copy of the stored value, so what a  *)
(* script run does to its df never reaches the cache.                      *)
(***************************************************************************)
DerivedColumns == {"DayOfWeek", "Hour", "Category", "Month"}

\* a data frame: the cleaned rows and the derived columns added so far
Frame(rows) == [rows |-> rows, extra |-> <<>>]

\* a cache that never holds an entry: load_data without @st.cache_data
NeverCached(c) == FALSE

\* whether a call of load_data() finds its result in the cache
CacheHit(c) == ~IsNull(c)

\* a cache that hands out the one stored object, as st.cache_resource does:
\* the frame the last script run worked on
SharedObject(rows, current) == IF IsNull(current) THEN Frame(rows) ELSE Val(current)

\* what load_data() returns on a cache hit: a new copy of the stored rows;
\* `current` is the df of the script run before
CachedCopy(rows, current) == Frame(rows)

\* df[name] = values
AddColumn(frame, name, values) ==
    [frame EXCEPT !.extra =
        [c \in DOMAIN frame.extra \cup {name} |->
            IF c = name THEN values ELSE frame.extra[c]]]

(***************************************************************************)
(* Aggregations shared by the handlers.                                    *)
(***************************************************************************)
\* the groups of a groupby over a key column: entries whose key is NaN
\* belong to no group (pandas' default dropna=True)
GroupKeys(keys) == {keys[i] : i \in {j \in DOMAIN keys : ~IsNull(keys[j])}}

\* the positions of the group k
GroupIndex(keys, k) == {i \in DOMAIN keys : keys[i] = k}

\* the sum of the non-NaN values at the positions I
SumAt(vals, I) ==
    LET J == {i \in I : ~IsNull(vals[i])}
    IN  SumSet([i \in J |-> Val(vals[i])], J)

\* groupby(keys)[vals].sum()
GroupSumSeq(keys, vals) ==
    [k \in GroupKeys(keys) |-> SumAt(vals, GroupIndex(keys, k))]

\* df.groupby(key)[val].sum()
GroupSum(rows, key, val) == GroupSumSeq(Column(rows, key), Column(rows, val))

\* df.groupby(key)[val].nunique()
GroupNunique(rows, key, val) ==
    [k \in GroupKeys(Column(rows, key)) |->
        Cardinality({rows[i][val] : i \in
            {j \in GroupIndex(Column(rows, key), k) : ~IsNull(rows[j][val])}})]

\* df.groupby(key)[val].count()
GroupCount(rows, key, val) ==
    [k \in GroupKeys(Column(rows, key)) |->
        Cardinality({j \in GroupIndex(Column(rows, key), k) : ~IsNull(rows[j][val])})]

\* Series.count(): the number of non-NaN entries
SeriesCount(s) == Len(SelectSeq(s, LAMBDA c : ~IsNull(c)))

\* Series.nunique(): the number of distinct non-NaN entries
nunique(s) == Cardinality({c \in Range(s) : ~IsNull(c)})

\* series.sort_values(ascending=False).head(n).index: the keys with fewer than
\* n keys of a larger value (every key when the series has at most n entries)
TopKeys(series, n) ==
    {k \in DOMAIN series :
        Cardinality({j \in DOMAIN series : series[j] > series[k]}) < n}

\* lexicographic order on pairs of integers
LexLess(a, b) == a[1] < b[1] \/ (a[1] = b[1] /\ a[2] < b[2])

\* a stable sort of a sequence of <<key, value>> entries by key (a pair of
\* integers), as sort_values does
RECURSIVE SortByKey(_)
SortByKey(s) ==
    IF s = <<>> THEN <<>>
    ELSE LET rest == SortByKey(SubSeq(s, 1, Len(s) - 1))
             x == s[Len(s)]
             n == Cardinality({i \in DOMAIN rest : ~LexLess(x[1], rest[i][1])})
         IN  SubSeq(rest, 1, n) \o <<x>> \o SubSeq(rest, n + 1, Len(rest))

(***************************************************************************)
(* Calendar arithmetic on parsed timestamps.                               *)
(***************************************************************************)
\* days since 1970-01-01 of a civil date
DaysFromCivil(y, m, d) ==
    LET yy == IF m <= 2 THEN y - 1 ELSE y
        era == yy \div 400
        yoe == yy - era * 400
        mp == (m + 9) % 12
        doy == (153 * mp + 2) \div 5 + d - 1
        doe == yoe * 365 + yoe \div 4 - yoe \div 100 + doy
    IN  era * 146097 + doe - 719468

Minutes(t) == (DaysFromCivil(t.year, t.month, t.day) * 24 + t.hour) * 60 + t.minute

\* Series.dt.day_name()
day_name(c) ==
    IF IsNull(c) THEN NULL
    ELSE LET t == Val(c)
             names == <<"Thursday", "Friday", "Saturday", "Sunday",
                        "Monday", "Tuesday", "Wednesday">>
         IN  Cell(names[(DaysFromCivil(t.year, t.month, t.day) % 7) + 1])

\* Series.dt.hour
hour_of(c) == IF IsNull(c) THEN NULL ELSE Cell(Val(c).hour)

\* Series.dt.to_period("M")
to_period_M(c) == IF IsNull(c) THEN NULL ELSE Cell(<<Val(c).year, Val(c).month>>)

\* (a - b).days for two timestamps in minutes
DaysBetween(a, b) == (a - b) \div 1440

(***************************************************************************)
(* Sales Performance (lines 34-87).                                        *)
(***************************************************************************)
LowerCase == <<"a", "b", "c", "d", "e", "f", "g", "h", "i", "j", "k", "l", "m",
               "n", "o", "p", "q", "r", "s", "t", "u", "v", "w", "x", "y", "z">>
UpperCase == <<"A", "B", "C", "D", "E", "F", "G", "H", "I", "J", "K", "L", "M",
               "N", "O", "P", "Q", "R", "S", "T", "U", "V", "W", "X", "Y", "Z">>

\* str.upper()
upper(s) ==
    [i \in DOMAIN s |->
        IF \E j \in DOMAIN LowerCase : LowerCase[j] = s[i]
        THEN UpperCase[CHOOSE j \in DOMAIN LowerCase : LowerCase[j] = s[i]]
        ELSE s[i]]

\* k in s, for two texts
Contains(s, k) ==
    \E i \in 1..(Len(s) - Len(k) + 1) : SubSeq(s, i, i + Len(k) - 1) = k

\* str(desc): the text itself, "nan" for a missing description
str(c) == IF IsNull(c) THEN <<"n", "a", "n">> ELSE Val(c)

keywords == << <<"H", "O", "L", "D", "E", "R">>, <<"S", "E", "T">>,
               <<"C", "U", "P">>, <<"B", "O", "T", "T", "L", "E">>,
               <<"L", "A", "N", "T", "E", "R", "N">>, <<"H", "E", "A", "R", "T">> >>

\* get_category (lines 77-82): the first keyword found in the description
get_category(desc) ==
    LET found == {i \in DOMAIN keywords : Contains(upper(str(desc)), keywords[i])}
    IN  IF found = {} THEN <<"O", "T", "H", "E", "R">>
        ELSE keywords[CHOOSE i \in found : \A j \in found : i <= j]

HeadProducts == 10    \* .head(10) of the top products and customers

\* a series cut to its TopKeys
TopSeries(series, n) == [k \in TopKeys(series, n) |-> series[k]]

SalesFrame(frame) ==
    LET rows == frame.rows
        f1 == AddColumn(frame, "DayOfWeek",
                        [i \in DOMAIN rows |-> day_name(rows[i].InvoiceDate)])
        f2 == AddColumn(f1, "Hour",
                        [i \in DOMAIN rows |-> hour_of(rows[i].InvoiceDate)])
    IN  AddColumn(f2, "Category",
                  [i \in DOMAIN rows |-> Cell(get_category(rows[i].Description))])

\* df['Revenue'].sum() (line 39)
total_revenue(rows) == SeriesSum(Column(rows, "Revenue"))

SalesOut(frame) ==
    LET rows == frame.rows
        f == SalesFrame(frame)
        revenue == Column(rows, "Revenue")
    IN  [view |-> "Sales Performance",
         total_revenue |-> total_revenue(rows),
         total_orders |-> nunique(Column(rows, "InvoiceNo")),
         total_customers |-> nunique(Column(rows, "CustomerID")),
         top_products_qty |->
             TopSeries(GroupSum(rows, "Description", "Quantity"), HeadProducts),
         top_products_rev |->
             TopSeries(GroupSum(rows, "Description", "Revenue"), HeadProducts),
         top_customers |->
             TopSeries(GroupSum(rows, "CustomerID", "Revenue"), HeadProducts),
         sales_by_day |-> GroupSumSeq(f.extra["DayOfWeek"], revenue),
         sales_by_hour |-> GroupSumSeq(f.extra["Hour"], revenue),
         category_revenue |-> GroupSumSeq(f.extra["Category"], revenue)]

(***************************************************************************)
(* Time-Series Analysis (lines 90-105).  A growth rate is the exact        *)
(* fraction <<numerator, denominator>>.                                    *)
(***************************************************************************)
TimeSeriesFrame(frame) ==
    AddColumn(frame, "Month",
              [i \in DOMAIN frame.rows |-> to_period_M(frame.rows[i].InvoiceDate)])

\* the months of monthly_sales in index order
MonthIndex(monthly) ==
    LET ms == {Val(k) : k \in DOMAIN monthly}
        asSeq == CHOOSE q \in [1..Cardinality(ms) -> ms] : Range(q) = ms
        sorted == SortByKey([i \in DOMAIN asSeq |-> <<asSeq[i], asSeq[i]>>])
    IN  [i \in DOMAIN sorted |-> Cell(sorted[i][2])]

\* Series.pct_change(periods).dropna(): x[i] / x[i - periods] - 1 as the
\* entries <<month, numerator, denominator>>; 0 / 0 is NaN and is dropped
pct_change(monthly, periods) ==
    LET idx == MonthIndex(monthly)
        change(i) == <<idx[i], monthly[idx[i]] - monthly[idx[i - periods]],
                       monthly[idx[i - periods]]>>
    IN  {change(i) : i \in {j \in (periods + 1)..Len(idx) :
                               change(j)[2] # 0 \/ change(j)[3] # 0}}

YearPeriods == 12    \* pct_change(12)

TimeSeriesOut(frame) ==
    LET f == TimeSeriesFrame(frame)
        monthly == GroupSumSeq(f.extra["Month"], Column(frame.rows, "Revenue"))
    IN  [view |-> "Time-Series Analysis",
         monthly_sales |-> monthly,
         yoy_growth |-> pct_change(monthly, YearPeriods),
         mom_growth |-> pct_change(monthly, 1)]

(***************************************************************************)
(* Customer Segmentation (lines 108-119).                                  *)
(***************************************************************************)
\* the largest timestamp (in minutes) at the positions I
MaxMinutes(rows, I) ==
    LET ts == {Minutes(Val(rows[i].InvoiceDate)) : i \in
                   {j \in I : ~IsNull(rows[j].InvoiceDate)}}
    IN  CHOOSE m \in ts : \A n \in ts : n <= m

SegmentationOut(frame) ==
    LET rows == frame.rows
        customers == Column(rows, "CustomerID")
        \* df['InvoiceDate'].max() + timedelta(days=1)
        snapshot_date == MaxMinutes(rows, DOMAIN rows) + 1440
        monetary == GroupSum(rows, "CustomerID", "Revenue")
        frequency == GroupCount(rows, "CustomerID", "InvoiceNo")
        diversity == GroupNunique(rows, "CustomerID", "Description")
    IN  [view |-> "Customer Segmentation",
         rfm |-> [k \in GroupKeys(customers) |->
                    [Recency |-> DaysBetween(snapshot_date,
                                     MaxMinutes(rows, GroupIndex(customers, k))),
                     Frequency |-> frequency[k],
                     Monetary |-> monetary[k],
                     Diversity |-> diversity[k]]]]

(***************************************************************************)
(* Country-Level Analysis (lines 137-147).  A mean is the exact fraction   *)
(* <<sum, count>>.                                                         *)
(***************************************************************************)
\* df.groupby("Country")["Revenue"].sum()
country_sales(rows) == GroupSum(rows, "Country", "Revenue")

CountryOut(frame) ==
    LET rows == frame.rows
    IN  [view |-> "Country-Level Analysis",
         country_sales |-> country_sales(rows),
         avg_transaction_size |->
             [k \in GroupKeys(Column(rows, "Country")) |->
                 <<country_sales(rows)[k], GroupCount(rows, "Country", "Revenue")[k]>>]]

\* Series.sum() of a grouped series
SumOfGroups(series) == SumSet(series, DOMAIN series)

(***************************************************************************)
(* Price & Quantity Insights (lines 150-156).                              *)
(***************************************************************************)
QuantilePct == 99    \* quantile(0.99)

\* x > s.quantile(QuantilePct / 100), with pandas' linear interpolation between
\* the two order statistics around position (n - 1) * q; s has no NaN here.
\* On an empty series the quantile is NaN and the comparison is False.
AboveQuantile(x, s) ==
    IF s = <<>> THEN FALSE
    ELSE LET sorted == SortByKey([i \in DOMAIN s |-> <<<<s[i], 0>>, s[i]>>])
             pos == (Len(s) - 1) * QuantilePct
             lo == pos \div 100 + 1
             hi == IF lo < Len(s) THEN lo + 1 ELSE lo
             frac == pos % 100
         IN  100 * x > 100 * sorted[lo][2] + (sorted[hi][2] - sorted[lo][2]) * frac

PresentValues(col) ==
    LET present == SelectSeq(col, LAMBDA c : ~IsNull(c))
    IN  [i \in DOMAIN present |-> Val(present[i])]

PriceQuantityOut(frame) ==
    LET rows == frame.rows
        qty == PresentValues(Column(rows, "Quantity"))
        rev == PresentValues(Column(rows, "Revenue"))
    IN  [view |-> "Price & Quantity Insights",
         bulk_orders |->
             SelectSeq(rows, LAMBDA r :
                 \/ ~IsNull(r.Quantity) /\ AboveQuantile(Val(r.Quantity), qty)
                 \/ ~IsNull(r.Revenue) /\ AboveQuantile(Val(r.Revenue), rev))]

(***************************************************************************)
(* Fraud Detection (lines 159-162).                                        *)
(***************************************************************************)
FraudOut(frame) ==
    [view |-> "Fraud Detection",
     fraud |-> SelectSeq(frame.rows, LAMBDA r :
                  \/ ~IsNull(r.Quantity) /\ Val(r.Quantity) <= 0
                  \/ ~IsNull(r.UnitPrice) /\ Val(r.UnitPrice) <= 0)]

(***************************************************************************)
(* Customer Retention (lines 165-176).                                     *)
(***************************************************************************)
RetentionOut(frame) ==
    LET rows == frame.rows
        repeat_customers == GroupNunique(rows, "CustomerID", "InvoiceNo")
        \* df.sort_values(["CustomerID", "InvoiceDate"])
        df_sorted ==
            LET keyed == SortByKey([i \in DOMAIN rows |->
                             << <<Val(rows[i].CustomerID),
                                  Minutes(Val(rows[i].InvoiceDate))>>, rows[i] >>])
            IN  [i \in DOMAIN keyed |-> keyed[i][2]]
        \* DaysGap of row i: the days since the previous row of the same customer
        HasPrev(i) == i > 1 /\ df_sorted[i - 1].CustomerID = df_sorted[i].CustomerID
        DaysGap(i) == DaysBetween(Minutes(Val(df_sorted[i].InvoiceDate)),
                                  Minutes(Val(df_sorted[i - 1].InvoiceDate)))
        GapRows(k) == {i \in DOMAIN df_sorted : df_sorted[i].CustomerID = k /\ HasPrev(i)}
    IN  [view |-> "Customer Retention",
         \* repeat_rate as the fraction <<repeaters, customers>> (times 100)
         repeat_rate |-> <<Cardinality({k \in DOMAIN repeat_customers :
                                           repeat_customers[k] > 1}),
                           Cardinality(DOMAIN repeat_customers)>>,
         \* avg_gap as <<sum of gaps, number of gaps>>, customers without a gap dropped
         avg_gap |-> [k \in {c \in DOMAIN repeat_customers : GapRows(c) # {}} |->
                        <<SumSet([i \in GapRows(k) |-> DaysGap(i)], GapRows(k)),
                          Cardinality(GapRows(k))>>]]

(***************************************************************************)
(* Basket Analysis (lines 122-134): the basket matrix.                     *)
(* A basket matrix is [cols, rows]: cols is the sequence of its columns    *)
(* (products) and rows the bag of its rows, a row being the set of columns *)
(* that are True in it.                                                    *)
(***************************************************************************)
HeadTopProducts == 500    \* .head(500)

Digit == <<"0", "1", "2", "3", "4", "5", "6", "7", "8", "9">>
Ascii == <<" ">> \o Digit \o UpperCase \o LowerCase

CharCode(c) == CHOOSE i \in DOMAIN Ascii : Ascii[i] = c

\* a < b for two texts, as Python orders str
TextLess(a, b) ==
    \E i \in 1..Len(b) :
        /\ \A j \in 1..(i - 1) : j <= Len(a) /\ a[j] = b[j]
        /\ \/ i = Len(a) + 1
           \/ i <= Len(a) /\ CharCode(a[i]) < CharCode(b[i])

\* the products as a sorted index, the columns of an unstack
SortedIndex(S) ==
    [i \in 1..Cardinality(S) |->
        CHOOSE d \in S : Cardinality({e \in S : TextLess(Val(e), Val(d))}) = i - 1]

\* the bag of f(x) over the elements x of the set S
BagOfImages(S, f(_)) ==
    LET images == {f(x) : x \in S}
    IN  [r \in images |-> Cardinality({x \in S : f(x) = r})]

BasketOf(frame) ==
    LET rows == frame.rows
        top_products == TopKeys(GroupSum(rows, "Description", "Quantity"),
                                HeadTopProducts)
        \* df[df['Description'].isin(top_products)]
        df_small == SelectSeq(rows, LAMBDA r : r.Description \in top_products)
        \* groupby(['InvoiceNo','Description'])['Quantity'].sum()
        keyed == {i \in DOMAIN df_small :
                     ~IsNull(df_small[i].InvoiceNo) /\ ~IsNull(df_small[i].Description)}
        invoices == {df_small[i].InvoiceNo : i \in keyed}
        products == {df_small[i].Description : i \in keyed}
        quantity(inv, d) ==
            SumAt(Column(df_small, "Quantity"),
                  {i \in keyed : df_small[i].InvoiceNo = inv /\ df_small[i].Description = d})
        present(inv, d) ==
            \E i \in keyed : df_small[i].InvoiceNo = inv /\ df_small[i].Description = d
        \* .unstack().fillna(0), then basket > 0
        row(inv) == {d \in products : present(inv, d) /\ quantity(inv, d) > 0}
    IN  [cols |-> SortedIndex(products), rows |-> BagOfImages(invoices, row)]

(***************************************************************************)
(* Frequent itemsets.  The result of apriori and of fpgrowth is            *)
(* [n, count]: n the number of rows of the matrix and count the function   *)
(* from each reported itemset to the number of rows that contain it; the   *)
(* reported support is count / n.                                          *)
(***************************************************************************)
\* min_support=0.02, as the fraction MinSupportNum / MinSupportDen
MinSupportNum == 2
MinSupportDen == 100

NumRows(b) == BagCardinality(b.rows)

\* the number of rows in which every column of the itemset is True
RowCount(b, itemset) ==
    LET containing == {r \in DOMAIN b.rows : itemset \subseteq r}
    IN  SumSet(b.rows, containing)

\* support >= min_support for a row count c out of n rows; with no row the
\* support is NaN and the comparison is False
AtLeastMinSupport(c, n) == n > 0 /\ c * MinSupportDen >= MinSupportNum * n

ColIndex(b, item) == CHOOSE i \in DOMAIN b.cols : b.cols[i] = item

\* mlxtend generate_new_combinations: every itemset of the last level extended
\* by an item of that level that lies to the right of its last column
NewCombinations(b, level) ==
    LET items == UNION level
        last(c) == CHOOSE i \in c : \A j \in c : ColIndex(b, j) <= ColIndex(b, i)
    IN  UNION {{c \cup {i} : i \in {j \in items : ColIndex(b, j) > ColIndex(b, last(c))}} :
                  c \in level}

\* the levels above `level` of mlxtend's apriori loop: the new combinations
\* whose support reaches min_support, until a level keeps none
RECURSIVE AprioriLevels(_, _)
AprioriLevels(b, level) ==
    LET kept == {c \in NewCombinations(b, level) :
                    AtLeastMinSupport(RowCount(b, c), NumRows(b))}
    IN  IF kept = {} THEN {} ELSE kept \cup AprioriLevels(b, kept)

\* apriori(basket, min_support=0.02, use_colnames=True)
apriori(b) ==
    LET level1 == {{b.cols[i]} : i \in
                      {j \in DOMAIN b.cols :
                          AtLeastMinSupport(RowCount(b, {b.cols[j]}), NumRows(b))}}
        itemsets == level1 \cup (IF level1 = {} THEN {} ELSE AprioriLevels(b, level1))
    IN  [n |-> NumRows(b), count |-> [c \in itemsets |-> RowCount(b, c)]]

(***************************************************************************)
(* fpgrowth.  An FP-tree is held as [order, rows]: order lists its items   *)
(* from the root down and rows is the bag of the itemsets inserted, each   *)
(* one a path of the tree in that order.                                   *)
(***************************************************************************)
\* math.floor(min_support * num_itemsets)
MinSupFloor(n) == (MinSupportNum * n) \div MinSupportDen

\* math.ceil(min_support * num_itemsets)
MinSupCount(n) == (MinSupportNum * n + MinSupportDen - 1) \div MinSupportDen

\* the summed count of the nodes of an item
NodeCount(rows, item) == SumSet(rows, {r \in DOMAIN rows : item \in r})

\* the tree of the weighted itemsets `branches` over the items `kept`: items
\* of larger count nearer the root (ties by column), itemsets cut to `kept`
BuildTree(b, branches, kept) ==
    LET Before(i, j) ==
            \/ NodeCount(branches, i) > NodeCount(branches, j)
            \/ /\ NodeCount(branches, i) = NodeCount(branches, j)
               /\ ColIndex(b, i) < ColIndex(b, j)
        images == {r \cap kept : r \in DOMAIN branches} \ {{}}
    IN  [order |-> [p \in 1..Cardinality(kept) |->
                       CHOOSE i \in kept :
                           Cardinality({j \in kept : Before(j, i)}) = p - 1],
         rows |-> [m \in images |->
                      SumSet(branches, {r \in DOMAIN branches : r \cap kept = m})]]

TreePos(tree, item) == CHOOSE p \in DOMAIN tree.order : tree.order[p] = item

TreeItems(tree) == UNION (DOMAIN tree.rows)

\* FPTree.is_path: no node has two children, i.e. of any two inserted itemsets
\* one is a prefix of the other
is_path(tree) ==
    \A r1, r2 \in DOMAIN tree.rows :
        \/ r1 \subseteq r2 /\ \A i \in r1, j \in r2 \ r1 : TreePos(tree, i) < TreePos(tree, j)
        \/ r2 \subseteq r1 /\ \A i \in r2, j \in r1 \ r2 : TreePos(tree, i) < TreePos(tree, j)

\* FPTree.conditional_tree(cond_item, minsup)
conditional_tree(b, tree, cond_item, minsup) ==
    LET above(r) == {j \in r : TreePos(tree, j) < TreePos(tree, cond_item)}
        with == {r \in DOMAIN tree.rows : cond_item \in r}
        paths == {above(r) : r \in with}
        branches == [m \in paths |-> SumSet(tree.rows, {r \in with : above(r) = m})]
        kept == {i \in UNION paths : NodeCount(branches, i) >= minsup}
    IN  BuildTree(b, branches, kept)

\* mlxtend fpg_step: the <<itemset, count>> pairs a tree yields
RECURSIVE fpg_step(_, _, _, _)
fpg_step(b, tree, cond_items, minsup) ==
    LET items == TreeItems(tree)
        MinCount(c) == CHOOSE n \in {NodeCount(tree.rows, i) : i \in c} :
                           \A i \in c : n <= NodeCount(tree.rows, i)
    IN  IF is_path(tree)
        THEN {<<cond_items \cup c, MinCount(c)>> : c \in (SUBSET items) \ {{}}}
        ELSE {<<cond_items \cup {i}, NodeCount(tree.rows, i)>> : i \in items}
             \cup UNION {fpg_step(b, conditional_tree(b, tree, i, minsup),
                                  cond_items \cup {i}, minsup) : i \in items}

\* fpgrowth(basket, min_support=0.02, use_colnames=True)
fpgrowth(b) ==
    LET items == {b.cols[j] : j \in
                     {k \in DOMAIN b.cols :
                         AtLeastMinSupport(RowCount(b, {b.cols[k]}), NumRows(b))}}
        tree == BuildTree(b, b.rows, items)
        found == fpg_step(b, tree, {}, MinSupCount(NumRows(b)))
    IN  [n |-> NumRows(b),
         count |-> [c \in {f[1] : f \in found} |->
                       (CHOOSE f \in found : f[1] = c)[2]]]

(***************************************************************************)
(* association_rules(frequent_itemsets, metric="lift", min_threshold=1).   *)
(* lift = support(A u C) / (support(A) * support(C)), held as the exact    *)
(* fraction <<count(A u C) * n, count(A) * count(C)>>.                     *)
(***************************************************************************)
MinLift == 1    \* min_threshold=1

\* the call raises ValueError on an empty frame of itemsets
RulesRaise(fi) == DOMAIN fi.count = {}

\* the rule antecedent -> itemset \ antecedent of a frequent itemset
Rule(fi, itemset, antecedent) ==
    [antecedents |-> antecedent, consequents |-> itemset \ antecedent,
     lift |-> <<fi.count[itemset] * fi.n,
                fi.count[antecedent] * fi.count[itemset \ antecedent]>>]

\* score >= min_threshold for a lift <<numerator, denominator>>
LiftAtLeastMin(lift) == lift[1] >= MinLift * lift[2]

association_rules(fi) ==
    UNION {{Rule(fi, k, a) : a \in {x \in (SUBSET k) \ {{}, k} :
                                       LiftAtLeastMin(Rule(fi, k, x).lift)}} :
              k \in DOMAIN fi.count}

(***************************************************************************)
(* The dashboard session.                                                  *)
(***************************************************************************)
sections == {"Sales Performance", "Time-Series Analysis", "Customer Segmentation",
             "Basket Analysis", "Country-Level Analysis", "Price & Quantity Insights",
             "Fraud Detection", "Customer Retention"}

NoBasket == [cols |-> <<>>, rows |-> EmptyBag]

Init ==
    /\ file \in Files
    /\ cache = NULL
    /\ reads = 0
    /\ pc = "idle"
    /\ choice = NULL
    /\ df = NULL
    /\ out = NULL
    /\ basket = NoBasket
    /\ frequent_itemsets = NULL
    /\ rules = NULL
    /\ calls = <<>>

\* the script is between two runs: nothing ran yet, or the last run ended
\* (its handler finished, or an uncaught exception stopped it)
Idle == pc \in {"idle", "done", "shown", "failed"}

\* a script run starts with nothing left of the run before it
StartRun ==
    /\ choice' = NULL
    /\ out' = NULL
    /\ basket' = NoBasket
    /\ frequent_itemsets' = NULL
    /\ rules' = NULL
    /\ calls' = <<>>
    /\ UNCHANGED file

\* df = load_data() (line 24) when the cache holds no entry: the body runs,
\* its result is stored and returned
LoadDataMiss ==
    /\ Idle
    /\ ~CacheHit(cache)
    /\ reads' = reads + 1
    /\ cache' = Cell(load_data_body(file))
    /\ df' = Cell(Frame(load_data_body(file)))
    /\ pc' = "loaded"
    /\ StartRun

\* df = load_data() (line 24) when the cache holds an entry: a copy of it
LoadDataHit ==
    /\ Idle
    /\ CacheHit(cache)
    /\ df' = Cell(CachedCopy(Val(cache), df))
    /\ pc' = "loaded"
    /\ UNCHANGED <<reads, cache>>
    /\ StartRun

BasketVars == <<basket, frequent_itemsets, rules, calls>>

\* a handler without try/except: it adds its columns to df and displays `o`
Handle(name, frame, o) ==
    /\ pc = "loaded"
    /\ choice' = Cell(name)
    /\ df' = Cell(frame)
    /\ out' = Cell(o)
    /\ pc' = "done"
    /\ UNCHANGED <<file, cache, reads>>
    /\ UNCHANGED BasketVars

SalesPerformance == Handle("Sales Performance", SalesFrame(Val(df)), SalesOut(Val(df)))

TimeSeriesAnalysis ==
    Handle("Time-Series Analysis", TimeSeriesFrame(Val(df)), TimeSeriesOut(Val(df)))

CustomerSegmentation ==
    Handle("Customer Segmentation", Val(df), SegmentationOut(Val(df)))

CountryLevelAnalysis == Handle("Country-Level Analysis", Val(df), CountryOut(Val(df)))

PriceQuantityInsights ==
    Handle("Price & Quantity Insights", Val(df), PriceQuantityOut(Val(df)))

FraudDetection == Handle("Fraud Detection", Val(df), FraudOut(Val(df)))

CustomerRetention == Handle("Customer Retention", Val(df), RetentionOut(Val(df)))

(***************************************************************************)
(* The Basket Analysis handler, one library call per step (lines 122-134). *)
(***************************************************************************)
\* lines 124-127: the basket matrix of df
BasketAnalysis ==
    /\ pc = "loaded"
    /\ choice' = Cell("Basket Analysis")
    /\ basket' = BasketOf(Val(df))
    /\ pc' = "try"
    /\ UNCHANGED <<file, cache, reads, df, out, frequent_itemsets, rules, calls>>

Exceptions == {"MemoryError", "Exception"}

\* no except clause
CaughtNever(exc) == FALSE

\* except Exception
CaughtAlways(exc) == TRUE

\* except MemoryError (line 130): the exceptions the handler catches
Caught(exc) == exc = "MemoryError"

SessionVars == <<file, cache, reads, choice, df, out>>

\* line 129: apriori returns
AprioriReturns ==
    /\ pc = "try"
    /\ frequent_itemsets' = Cell(apriori(basket))
    /\ calls' = Append(calls, <<"apriori", "ok">>)
    /\ pc' = "rules"
    /\ UNCHANGED <<basket, rules>>
    /\ UNCHANGED SessionVars

\* line 129: apriori raises; lines 130-131 catch a MemoryError and go on to
\* fpgrowth, any other exception ends the script run
AprioriRaises ==
    /\ pc = "try"
    /\ \E exc \in Exceptions :
        /\ calls' = Append(calls, <<"apriori", exc>>)
        /\ pc' = IF Caught(exc) THEN "fallback" ELSE "failed"
    /\ UNCHANGED <<basket, frequent_itemsets, rules>>
    /\ UNCHANGED SessionVars

\* line 131: fpgrowth returns
FpgrowthReturns ==
    /\ pc = "fallback"
    /\ frequent_itemsets' = Cell(fpgrowth(basket))
    /\ calls' = Append(calls, <<"fpgrowth", "ok">>)
    /\ pc' = "rules"
    /\ UNCHANGED <<basket, rules>>
    /\ UNCHANGED SessionVars

\* line 131: fpgrowth raises inside the except block: nothing catches it
FpgrowthRaises ==
    /\ pc = "fallback"
    /\ \E exc \in Exceptions :
        calls' = Append(calls, <<"fpgrowth", exc>>)
    /\ pc' = "failed"
    /\ UNCHANGED <<basket, frequent_itemsets, rules>>
    /\ UNCHANGED SessionVars

\* lines 132-134: the rules are derived and shown
RulesReturn ==
    /\ pc = "rules"
    /\ ~RulesRaise(Val(frequent_itemsets))
    /\ rules' = Cell(association_rules(Val(frequent_itemsets)))
    /\ calls' = Append(calls, <<"association_rules", "ok">>)
    /\ pc' = "shown"
    /\ UNCHANGED <<basket, frequent_itemsets>>
    /\ UNCHANGED SessionVars

\* line 132: association_rules raises ValueError on an empty frame of
\* itemsets: nothing catches it
RulesRaises ==
    /\ pc = "rules"
    /\ RulesRaise(Val(frequent_itemsets))
    /\ calls' = Append(calls, <<"association_rules", "ValueError">>)
    /\ pc' = "failed"
    /\ UNCHANGED <<basket, frequent_itemsets, rules>>
    /\ UNCHANGED SessionVars

BasketStep ==
    \/ AprioriReturns
    \/ AprioriRaises
    \/ FpgrowthReturns
    \/ FpgrowthRaises
    \/ RulesReturn
    \/ RulesRaises

Next ==
    \/ LoadDataMiss
    \/ LoadDataHit
    \/ SalesPerformance
    \/ TimeSeriesAnalysis
    \/ CustomerSegmentation
    \/ BasketAnalysis
    \/ CountryLevelAnalysis
    \/ PriceQuantityInsights
    \/ FraudDetection
    \/ CustomerRetention
    \/ BasketStep

Spec == Init /\ [][Next]_vars

(***************************************************************************)
(* The Basket Analysis handler on its own, from line 128 on, over basket   *)
(* matrices of up to MaxPatterns distinct rows, each occurring once or     *)
(* BulkCount times.  A row of a basket matrix holds at least one product.  *)
(***************************************************************************)
Products == <<"BOTTLE", "CUP", "SET">>

BasketRows == (SUBSET Range(Products)) \ {{}}

\* the columns of a basket matrix are the products of its rows
Baskets ==
    UNION {{[cols |-> SelectSeq(Products, LAMBDA p : p \in UNION S), rows |-> m] :
                m \in [S -> {1, BulkCount}]} :
              S \in {T \in SUBSET BasketRows : Cardinality(T) <= MaxPatterns}}

BasketInit ==
    /\ file = <<>>
    /\ cache = NULL
    /\ reads = 0
    /\ pc = "try"
    /\ choice = Cell("Basket Analysis")
    /\ df = NULL
    /\ out = NULL
    /\ basket \in Baskets
    /\ frequent_itemsets = NULL
    /\ rules = NULL
    /\ calls = <<>>

BasketSpec == BasketInit /\ [][BasketStep]_vars

(***************************************************************************)
(* Properties of the session (checked under Spec).                         *)
(***************************************************************************)
\* the rows the cache holds and the rows the current script run works on
CachedRows == IF cache # NULL THEN Val(cache) ELSE <<>>
SeenRows == IF IsNull(df) THEN <<>> ELSE Val(df).rows

\* P holds of every record of the cleaned dataset, cached or seen by a handler
EveryRecord(P(_)) ==
    /\ \A i \in DOMAIN CachedRows : P(CachedRows[i])
    /\ \A i \in DOMAIN SeenRows : P(SeenRows[i])

\* the text of an invoice identifier starts with the upper-case letter C
MarksCancellation(c) ==
    /\ ~IsNull(c)
    /\ Val(c)[1] = "str"
    /\ Val(c)[2] # <<>>
    /\ Val(c)[2][1] = "C"

\* a handler has finished on a dataset that kept at least one row
HandlerRanOnData == pc = "done" /\ SeenRows # <<>>

\* C1: every record of the cleaned dataset, as cached and as seen by any view
\* handler after any sequence of view selections, has a customer identifier.
C1_CustomerPresent == EveryRecord(LAMBDA r : ~IsNull(r.CustomerID))

\* a handler ran on a non-empty dataset whose file held a row without a
\* customer identifier that passes the other two filters
C1_Witness ==
    /\ HandlerRanOnData
    /\ \E i \in DOMAIN file :
        /\ IsNull(file[i].CustomerID)
        /\ ~MarksCancellation(file[i].InvoiceNo)
        /\ Val(file[i].Quantity) > 0

\* C2: every record of the cleaned dataset has a strictly positive quantity,
\* and the Fraud Detection handler shows no record with Quantity <= 0.
C2_QuantityPositive ==
    /\ EveryRecord(LAMBDA r : ~IsNull(r.Quantity) /\ Val(r.Quantity) > 0)
    /\ (pc = "done" /\ choice = Cell("Fraud Detection")) =>
           \A i \in DOMAIN Val(out).fraud : Val(Val(out).fraud[i].Quantity) > 0

\* the Fraud Detection handler ran on a non-empty dataset whose file held a
\* row of quantity zero and a customer, not cancelled
C2_Witness ==
    /\ HandlerRanOnData
    /\ choice = Cell("Fraud Detection")
    /\ \E i \in DOMAIN file :
        /\ Val(file[i].Quantity) = 0
        /\ ~IsNull(file[i].CustomerID)
        /\ ~MarksCancellation(file[i].InvoiceNo)

\* C3: no record of the cleaned dataset has an invoice identifier whose text
\* starts with the upper-case letter C.
C3_NoCancellation == EveryRecord(LAMBDA r : ~MarksCancellation(r.InvoiceNo))

\* a handler ran on a non-empty dataset whose file held a cancelled invoice
\* row with a customer and a positive quantity
C3_Witness ==
    /\ HandlerRanOnData
    /\ \E i \in DOMAIN file :
        /\ MarksCancellation(file[i].InvoiceNo)
        /\ ~IsNull(file[i].CustomerID)
        /\ Val(file[i].Quantity) > 0

\* C4: in every record of the cleaned dataset Revenue is the product of that
\* record's Quantity and UnitPrice.
C4_RevenueIsProduct ==
    EveryRecord(LAMBDA r :
        /\ ~IsNull(r.Revenue)
        /\ Val(r.Revenue) = Val(r.Quantity) * Val(r.UnitPrice))

\* a handler ran on a dataset with two records of different revenue
C4_Witness ==
    /\ pc = "done"
    /\ \E i, j \in DOMAIN SeenRows : SeenRows[i].Revenue # SeenRows[j].Revenue

\* C5: the per-country revenues of the Country-Level Analysis handler add up
\* to the total revenue the Sales Performance handler shows for the dataset.
C5_PartitionConsistency ==
    (pc = "done" /\ choice = Cell("Country-Level Analysis")) =>
        SumOfGroups(Val(out).country_sales) = total_revenue(SeenRows)

\* C8: the cached dataset never changes once created; the rows a script run
\* works on are the cached rows, a handler adds nothing but derived columns,
\* and a script run starts without the columns an earlier run added.
C8_CacheReadOnly ==
    /\ [][cache # NULL => cache' = cache]_vars
    /\ [](~IsNull(df) =>
            /\ cache # NULL
            /\ Val(df).rows = Val(cache)
            /\ DOMAIN Val(df).extra \subseteq DerivedColumns
            /\ (pc = "loaded" => DOMAIN Val(df).extra = {}))

\* the Time-Series handler has added Month to a non-empty dataset that came
\* from the cache
C8_Witness ==
    /\ HandlerRanOnData
    /\ choice = Cell("Time-Series Analysis")
    /\ "Month" \in DOMAIN Val(df).extra
    /\ reads = 1

\* C9: the file is read and cleaned at most once; once the cache holds the
\* dataset no later script run reads the file or changes the cached rows,
\* and every script run works on the cached rows.
C9_LoadOrReuse ==
    /\ [](reads <= 1)
    /\ [](reads = 0 <=> cache = NULL)
    /\ [](~IsNull(df) => Val(df).rows = CachedRows)
    /\ [][cache # NULL => (reads' = reads /\ cache' = cache)]_vars

\* a handler has finished on a non-empty dataset after one read of the file
C9_Witness == HandlerRanOnData /\ reads = 1 /\ cache # NULL /\ SeenRows = Val(cache)

(***************************************************************************)
(* Properties of the Basket Analysis handler (checked under BasketSpec).   *)
(***************************************************************************)
\* the itemsets of a basket matrix whose support is at least min_support,
\* by definition: the rows that hold the itemset, over all rows
FrequentByDefinition(b) ==
    {c \in (SUBSET Range(b.cols)) \ {{}} :
        /\ NumRows(b) > 0
        /\ RowCount(b, c) * MinSupportDen >= MinSupportNum * NumRows(b)}

\* some frequent itemset splits into an antecedent and a consequent of
\* lift >= 1: support(A u C) >= support(A) * support(C)
HasLiftRule(b) ==
    \E c \in FrequentByDefinition(b) :
        \E a \in (SUBSET c) \ {{}, c} :
            RowCount(b, c) * NumRows(b) >= RowCount(b, a) * RowCount(b, c \ a)

\* how the handler's calls went
PrimaryMemoryError == calls # <<>> /\ calls[1] = <<"apriori", "MemoryError">>
HandlerEnded == pc \in {"shown", "failed"}
Ran(name) == {i \in DOMAIN calls : calls[i][1] = name}
LastCall == calls[Len(calls)]

C7_RuleSetsShareARule ==
    pc = "shown" =>
        association_rules(apriori(basket)) \cap association_rules(fpgrowth(basket)) # {}

\* C7 amended: on the same matrix and threshold the path that ran reports the
\* itemsets, supports and rules that the other path reports, so the two rule
\* sets share every rule; and every itemset reported has support >= 0.02.
C7_SameRuleSets ==
    /\ pc \in {"rules", "shown"} =>
          /\ Val(frequent_itemsets) = apriori(basket)
          /\ Val(frequent_itemsets) = fpgrowth(basket)
          /\ \A c \in DOMAIN Val(frequent_itemsets).count :
                /\ Val(frequent_itemsets).count[c] = RowCount(basket, c)
                /\ RowCount(basket, c) * MinSupportDen >= MinSupportNum * NumRows(basket)
    /\ pc = "shown" =>
          /\ Val(rules) = association_rules(apriori(basket))
          /\ Val(rules) = association_rules(fpgrowth(basket))

\* the fallback path showed rules for a matrix in which some product is below
\* the support threshold and some itemset of two products is above it
C7_Witness ==
    /\ pc = "shown"
    /\ calls[2] = <<"fpgrowth", "ok">>
    /\ Val(rules) # {}
    /\ \E i \in DOMAIN basket.cols :
          {basket.cols[i]} \notin DOMAIN Val(frequent_itemsets).count
    /\ \E c \in DOMAIN Val(frequent_itemsets).count : Cardinality(c) >= 2

\* C10: the fallback runs if and only if apriori raised a memory error, and at
\* most once; apriori runs once and first; any other exception (from apriori,
\* from fpgrowth, from association_rules) is the last call of the handler,
\* which ends in failure, and the handler fails in no other way.
C10_OnlyErrorPath ==
    /\ Cardinality(Ran("fpgrowth")) <= 1
    /\ Cardinality(Ran("apriori")) <= 1
    /\ calls # <<>> => calls[1][1] = "apriori"
    /\ Ran("fpgrowth") # {} => PrimaryMemoryError
    /\ (HandlerEnded /\ PrimaryMemoryError) => Ran("fpgrowth") # {}
    /\ \A i \in DOMAIN calls :
          (calls[i][2] # "ok" /\ calls[i] # <<"apriori", "MemoryError">>) =>
              (i = Len(calls) /\ pc = "failed")
    /\ pc = "failed" =>
          (LastCall[2] # "ok" /\ LastCall # <<"apriori", "MemoryError">>)

\* the handler failed in the fallback after a memory error of apriori
C10_Witness ==
    /\ pc = "failed"
    /\ PrimaryMemoryError
    /\ Len(calls) = 2
    /\ calls[2][1] = "fpgrowth"

=============================================================================
